---- MODULE Spec2Model ----
(***************************************************************************)
(* Model of the request-dispatch and downstream-client layer of the        *)
(* conduites BFF gateway: HttpClient.request / healthCheck, the            *)
(* envelope-based service clients (user, product, notification), the       *)
(* direct-fetch clients (account, customer), the resolvers, the health     *)
(* aggregator and the execution of a GraphQL operation over them.          *)
(* `calls` lists the invocations made so far, one record each; `now` is    *)
(* the clock the deadline timers and Date.now() read; `client` holds the   *)
(* fields of the HttpClient the calls go through; `cluster` is the primary *)
(* process and the workers it has forked.                                  *)
(***************************************************************************)
EXTENDS Integers, Sequences, FiniteSets, TLC

VARIABLES now, calls, client, cluster, nodeEnv, invoked, pending, response

\* The GraphQL engine: the environment the server was started in, the
\* resolver invocations it has made, the fields of a serial selection it has
\* yet to run, the response it has produced.
engine == <<nodeEnv, invoked, pending, response>>
vars == <<now, calls, client, cluster, engine>>

(* ------------------------------ bounds -------------------------------- *)

\* Number of invocations made on one client.
MaxCalls == 2
\* cpus().length
NumCPUs == 2
\* Number of workers that exit.
MaxExits == 2
\* Last instant of the clock.
MaxTime == 4
\* this.timeout in clock ticks (30000 ms by default).
Timeout == 2

\* The invocations made so far.
Slots == DOMAIN calls

(* --------------------------- JavaScript values ------------------------ *)

\* A JSON / JavaScript value: its type tag and an integer payload (the
\* number, the string's length, the boolean as 0/1, the object's identity).
Undefined == [t |-> "undefined", n |-> 0]
JNull == [t |-> "null", n |-> 0]
JFalse == [t |-> "bool", n |-> 0]
JZero == [t |-> "num", n |-> 0]
JSeven == [t |-> "num", n |-> 7]
JEmptyStr == [t |-> "str", n |-> 0]
JObj == [t |-> "obj", n |-> 3]
\* Two ids and a category name: non-empty strings.
IdA == [t |-> "str", n |-> 1]
IdB == [t |-> "str", n |-> 2]
JText == [t |-> "str", n |-> 5]
\* An object holding a reference to itself: truthy, not serializable.
JCircular == [t |-> "circ", n |-> 0]

\* JavaScript truthiness, as used by `data ? ... : ...` and `!response.data`.
Truthy(v) ==
  CASE v.t \in {"undefined", "null"} -> FALSE
    [] v.t \in {"bool", "num", "str"} -> v.n # 0
    [] OTHER -> TRUE

\* A string: a literal, or the template `HTTP ${status}: ${statusText}`,
\* or the direct clients' `Failed to fetch <what> <id>: <status> <text>`.
Lit(s) == [pre |-> "", code |-> 0, text |-> s]
HttpMsg(status, text) == [pre |-> "HTTP", code |-> status, text |-> text]
DirectMsg(what, id, status, text) ==
  [pre |-> what, id |-> id, code |-> status, text |-> text]
NonEmpty(m) == ~(m.pre = "" /\ m.text = "")

\* A thrown value: an Error (name, message) or any other throwable.
Err(name, msg) == [isError |-> TRUE, name |-> name, message |-> Lit(msg)]
NoThrown == [isError |-> FALSE, name |-> "", message |-> Lit("")]
NetErr == Err("TypeError", "fetch failed")
EmptyErr == Err("Error", "")
StringThrow == [isError |-> FALSE, name |-> "", message |-> Lit("String error")]
SyntaxErr == Err("SyntaxError", "Unexpected end of JSON input")
CircularErr == Err("TypeError", "Converting circular structure to JSON")
\* What fetch / response.json() reject with once controller.abort() ran.
AbortErr == Err("AbortError", "This operation was aborted")

\* limit.toString() / offset.toString() on null.
NullishErr == Err("TypeError", "Cannot read properties of null (reading 'toString')")
\* What reading `context.requestId` throws when context is undefined.
ContextErr == Err("TypeError", "Cannot read properties of undefined (reading 'requestId')")

\* Number.prototype.toString: the decimal text of the number.
NumText(v) == [t |-> "numtext", n |-> v.n]
\* null and undefined have no toString method.
Nullish(v) == v.t \in {"undefined", "null"}

\* JSON.stringify(data): the text of the value, or a TypeError.
CanStringify(v) == v.t # "circ"
Stringify(v) == [present |-> TRUE, json |-> v]
NoBody == [present |-> FALSE, json |-> Undefined]

(* ----------------------------- environment ---------------------------- *)

\* Values a caller may pass as `data` to post / put.
DataArgs == {Undefined, JNull, JFalse, JZero, JEmptyStr, JObj, JCircular}
\* Status lines a downstream may answer with.
Statuses == {200, 204, 299, 300, 404, 408}
StatusText(s) ==
  CASE s = 200 -> "OK"
    [] s = 204 -> "No Content"
    [] s = 300 -> "Multiple Choices"
    [] s = 404 -> "Not Found"
    [] s = 408 -> "Request Timeout"
    [] OTHER -> ""
\* HTTP/2 responses carry no reason phrase: statusText is then empty.
StatusTexts(s) == {StatusText(s), ""}
\* What response.json() may resolve to.
Bodies == {JNull, JFalse, JZero, JEmptyStr, JSeven, JObj}
\* What the transport may reject with on its own (no abort involved).
FetchThrows == {NetErr, EmptyErr, StringThrow}
\* What response.json() may reject with on its own: the body is not JSON
\* (the empty body of a 204 included).
JsonThrows == {SyntaxErr}

\* Response.ok
Ok(status) == status >= 200 /\ status <= 299

(* ------------------------------ operations ---------------------------- *)

RawOps == {"get", "post", "put", "delete", "healthCheck"}
UserOps == {"getUserById", "getUsers", "createUser", "updateUser", "deleteUser"}
ProductOps ==
  {"getProductById", "getProducts", "createProduct", "updateProduct", "deleteProduct"}
NotificationOps ==
  {"getUserNotifications", "getUnreadCount", "createNotification", "markAsRead",
   "deleteNotification"}
EnvelopeOps == UserOps \cup ProductOps \cup NotificationOps
DirectOps == {"getAccountById", "getAccountsByCustomerId", "getCustomerById"}
ServiceOps == EnvelopeOps \cup DirectOps
DeleteOps == {"deleteUser", "deleteProduct", "deleteNotification"}

\* The HttpClient method an operation goes through.
Method(op) ==
  CASE op \in {"get", "healthCheck", "getUserById", "getUsers", "getProductById",
               "getProducts", "getUserNotifications", "getUnreadCount"} -> "GET"
    [] op \in {"post", "createUser", "createProduct", "createNotification"} -> "POST"
    [] op \in {"put", "updateUser", "updateProduct", "markAsRead"} -> "PUT"
    [] op \in {"delete"} \cup DeleteOps -> "DELETE"
    [] OTHER -> "GET"

\* The path an operation requests (ids and query strings left symbolic).
Path(op) ==
  CASE op = "healthCheck" -> "/health"
    [] op \in {"getUserById", "updateUser", "deleteUser"} -> "/users/:id"
    [] op \in {"getUsers", "createUser"} -> "/users"
    [] op \in {"getProductById", "updateProduct", "deleteProduct"} -> "/products/:id"
    [] op \in {"getProducts", "createProduct"} -> "/products"
    [] op \in {"getUserNotifications", "createNotification"} -> "/notifications"
    [] op = "getUnreadCount" -> "/notifications/unread-count"
    [] op = "markAsRead" -> "/notifications/:id/read"
    [] op = "deleteNotification" -> "/notifications/:id"
    [] op = "getAccountById" -> "/accounts/:id"
    [] op = "getAccountsByCustomerId" -> "/accounts"
    [] op = "getCustomerById" -> "/customers/:id"
    [] OTHER -> "/path"

\* The `data` arguments an operation may hand to HttpClient.request.
DataOf(op) ==
  CASE op \in {"post", "put"} -> DataArgs
    [] op \in {"createUser", "updateUser", "createProduct", "updateProduct",
               "createNotification"} -> {JObj}
    [] OTHER -> {Undefined}

\* The arguments of a service-client method: the id in its path (or the
\* userId), the pagination, the category filter, the input object.
NoArgs ==
  [id |-> Undefined, limit |-> Undefined, offset |-> Undefined,
   category |-> Undefined, input |-> Undefined]
\* Arguments of an invocation made with a valid page and the given data.
PlainArgs(data) ==
  [NoArgs EXCEPT !.id = IdA, !.limit = JSeven, !.offset = JZero, !.input = data]

ListOps == {"getUsers", "getProducts", "getUserNotifications"}

\* The list operations build their query string before they call the
\* client: limit.toString() / offset.toString() throw on null.
ThrowsBeforeCall(op, a) == op \in ListOps /\ (Nullish(a.limit) \/ Nullish(a.offset))

\* getProducts: `if (category) queryParams.append('category', category)`.
CategoryParam(a) ==
  IF Truthy(a.category) THEN {[name |-> "category", value |-> a.category]} ELSE {}

\* The query-string parameters an operation sends (URLSearchParams).
Query(op, a) ==
  LET page == {[name |-> "limit", value |-> NumText(a.limit)],
               [name |-> "offset", value |-> NumText(a.offset)]} IN
  CASE op = "getUsers" -> page
    [] op = "getProducts" -> page \cup CategoryParam(a)
    [] op = "getUserNotifications" -> {[name |-> "userId", value |-> a.id]} \cup page
    [] op = "getUnreadCount" -> {[name |-> "userId", value |-> a.id]}
    [] OTHER -> {}

\* The body argument an operation hands to the client: the input object of
\* create / update, nothing for the others.
DataArg(op, a) ==
  IF op \in {"createUser", "updateUser", "createProduct", "updateProduct",
             "createNotification"}
  THEN a.input ELSE Undefined

\* The number of HttpClient.request calls one invocation makes: each
\* envelope operation (and get / post / put / delete / healthCheck itself)
\* awaits the client once; the direct clients call fetch themselves.
RequestsPerOp(op) == IF op \in DirectOps THEN 0 ELSE 1

\* The fixed message of `throw new Error(response.error || '...')`.
Fallback(op) ==
  CASE op = "getUserById" -> "Failed to fetch user"
    [] op = "getUsers" -> "Failed to fetch users"
    [] op = "createUser" -> "Failed to create user"
    [] op = "updateUser" -> "Failed to update user"
    [] op = "getProductById" -> "Failed to fetch product"
    [] op = "getProducts" -> "Failed to fetch products"
    [] op = "createProduct" -> "Failed to create product"
    [] op = "updateProduct" -> "Failed to update product"
    [] op = "getUserNotifications" -> "Failed to fetch notifications"
    [] op = "getUnreadCount" -> "Failed to fetch unread notification count"
    [] op = "createNotification" -> "Failed to create notification"
    [] op = "markAsRead" -> "Failed to mark notification as read"
    [] OTHER -> ""

\* The subject of the direct clients' failure message.
DirectWhat(op) ==
  CASE op = "getAccountById" -> "Failed to fetch account"
    [] op = "getAccountsByCustomerId" -> "Failed to fetch accounts for customer"
    [] OTHER -> "Failed to fetch customer"

(* --------------------------- ServiceResponse -------------------------- *)

\* ServiceResponse<T>: { data?, error?, status }.  `raised` marks a call
\* that threw instead of returning (thrown is then the value it threw).
NoRes ==
  [raised |-> FALSE, thrown |-> NoThrown, status |-> 0, hasData |-> FALSE,
   data |-> Undefined, hasError |-> FALSE, error |-> Lit("")]
\* Variant: a data result that also carries an error key.
DataResWithError(status, v) ==
  [NoRes EXCEPT !.status = status, !.hasData = TRUE, !.data = v, !.hasError = TRUE]
DataRes(status, v) == [NoRes EXCEPT !.status = status, !.hasData = TRUE, !.data = v]
ErrorRes(status, m) == [NoRes EXCEPT !.status = status, !.hasError = TRUE, !.error = m]
RaisedRes(th) == [NoRes EXCEPT !.raised = TRUE, !.thrown = th]
TimeoutRes == ErrorRes(408, Lit("Request timeout"))

\* `response.error` / `response.data` read as conditions.
ErrorSet(res) == res.hasError /\ NonEmpty(res.error)
DataSet(res) == res.hasData /\ Truthy(res.data)

\* Variant: a catch block that reports every Error as a timeout.
RequestCatchAsTimeout(th) ==
  IF th.isError THEN TimeoutRes ELSE ErrorRes(500, Lit("Unknown error occurred"))

\* Variant: a catch block that handles Errors and rethrows anything else.
RequestCatchRethrows(th) ==
  IF th.isError
  THEN IF th.name = "AbortError"
       THEN TimeoutRes
       ELSE ErrorRes(500, th.message)
  ELSE RaisedRes(th)

\* The catch block of HttpClient.request.
RequestCatch(th) ==
  IF th.isError
  THEN IF th.name = "AbortError"
       THEN TimeoutRes
       ELSE ErrorRes(500, th.message)
  ELSE ErrorRes(500, Lit("Unknown error occurred"))

\* body: data ? JSON.stringify(data) : undefined
BodyField(data) == IF Truthy(data) THEN Stringify(data) ELSE NoBody

\* Variant: a client that, once a call has failed, answers every later
\* failure itself.
HttpFailureLatched(status, text) ==
  IF \E d \in DOMAIN calls : calls[d].pc = "done" /\ calls[d].res.hasError
  THEN ErrorRes(503, Lit("Service unavailable"))
  ELSE ErrorRes(status, HttpMsg(status, text))

\* Variant: every HTTP failure reported as a 500.
HttpFailureAs500(status, text) == ErrorRes(500, HttpMsg(status, text))

\* The !response.ok branch of HttpClient.request.
HttpFailure(status, text) == ErrorRes(status, HttpMsg(status, text))

\* Variant: the response's status replaced by a fixed 200.
HttpSuccessFixedStatus(status, v) == DataRes(200, v)

\* The return after `await response.json()`.
HttpSuccess(status, v) == DataRes(status, v)

\* Variant: a timer that is never due within the horizon.
DeadlineNever(start) == start + Timeout + MaxTime

\* setTimeout(() => controller.abort(), this.timeout): when the timer is due.
Deadline(start) == start + client.timeout

\* clearTimeout(timeoutId)
ClearTimeout(t) == IF t = "armed" THEN "cleared" ELSE t

\* Variant: one AbortController shared by every call of the client.
AbortTargetsShared(c) == DOMAIN calls

\* The calls controller.abort() of call c cancels: its own fetch.
AbortTargets(c) == {c}

(* --------------------------- operation results ------------------------ *)

\* What an operation hands its caller: a value, or a thrown value.
NoOut ==
  [raised |-> FALSE, thrown |-> NoThrown, val |-> Undefined, health |-> "", rt |-> 0]
Returned(v) == [NoOut EXCEPT !.val = v]
Raised(th) == [NoOut EXCEPT !.raised = TRUE, !.thrown = th]
NewError(m) == [isError |-> TRUE, name |-> "Error", message |-> m]
JBool(b) == [t |-> "bool", n |-> IF b THEN 1 ELSE 0]

\* response.data.count
CountOf(v) == IF v.t = "obj" THEN [t |-> "num", n |-> v.n] ELSE Undefined

\* Variant: `throw new Error(response.error)` with no fallback message.
UnwrapNoFallback(op, res) ==
  IF res.raised THEN Raised(res.thrown)
  ELSE IF ErrorSet(res) \/ ~DataSet(res)
  THEN Raised(NewError(res.error))
  ELSE IF op = "getUnreadCount" THEN Returned(CountOf(res.data))
  ELSE Returned(res.data)

\* The read / create / update operations of the envelope clients.
Unwrap(op, res) ==
  IF res.raised THEN Raised(res.thrown)
  ELSE IF ErrorSet(res) \/ ~DataSet(res)
  THEN Raised(NewError(IF ErrorSet(res) THEN res.error ELSE Lit(Fallback(op))))
  ELSE IF op = "getUnreadCount" THEN Returned(CountOf(res.data))
  ELSE Returned(res.data)

\* deleteUser / deleteProduct / deleteNotification.
DeleteResult(res) ==
  IF res.raised THEN Raised(res.thrown)
  ELSE IF ErrorSet(res) THEN Raised(NewError(res.error))
  ELSE Returned(JBool(res.status = 204))

\* Variant: any 2xx status counted as healthy.
HealthResultAny2xx(res, elapsed) ==
  IF res.raised
  THEN [NoOut EXCEPT !.health = "unhealthy", !.rt = elapsed]
  ELSE [NoOut EXCEPT !.health = IF Ok(res.status) THEN "healthy" ELSE "unhealthy",
                     !.rt = elapsed]

\* HttpClient.healthCheck: both the try and the catch branch.
HealthResult(res, elapsed) ==
  IF res.raised
  THEN [NoOut EXCEPT !.health = "unhealthy", !.rt = elapsed]
  ELSE [NoOut EXCEPT !.health = IF res.status = 200 THEN "healthy" ELSE "unhealthy",
                     !.rt = elapsed]

\* get / post / put / delete hand the ServiceResponse of request on.
RawResult(res) == IF res.raised THEN Raised(res.thrown) ELSE NoOut

OpResult(op, res, elapsed) ==
  CASE op = "healthCheck" -> HealthResult(res, elapsed)
    [] op \in DeleteOps -> DeleteResult(res)
    [] op \in EnvelopeOps \ DeleteOps -> Unwrap(op, res)
    [] OTHER -> RawResult(res)

(* ------------------------------ resolvers ----------------------------- *)

UserFields ==
  {"Query.user", "Query.users", "Mutation.createUser", "Mutation.updateUser",
   "Mutation.deleteUser"}
ProductFields ==
  {"Query.product", "Query.products", "Mutation.createProduct",
   "Mutation.updateProduct", "Mutation.deleteProduct"}
NotificationFields ==
  {"Query.notifications", "Query.unreadNotificationCount",
   "Mutation.createNotification", "Mutation.markNotificationAsRead",
   "Mutation.deleteNotification"}
\* accountResolver / customerResolver, as wired by resolvers/index.ts.
AccountFields == {"Query.account", "Query.customer"}
RelationalFields == {"Account.customer", "Customer.accounts"}
HealthField == "Query.health"
PassThroughFields ==
  UserFields \cup ProductFields \cup NotificationFields \cup AccountFields
    \cup RelationalFields
Fields == PassThroughFields \cup {HealthField}

\* The service-client method a resolver awaits.
ServiceOf(field) ==
  CASE field = "Query.user" -> "getUserById"
    [] field = "Query.users" -> "getUsers"
    [] field = "Mutation.createUser" -> "createUser"
    [] field = "Mutation.updateUser" -> "updateUser"
    [] field = "Mutation.deleteUser" -> "deleteUser"
    [] field = "Query.product" -> "getProductById"
    [] field = "Query.products" -> "getProducts"
    [] field = "Mutation.createProduct" -> "createProduct"
    [] field = "Mutation.updateProduct" -> "updateProduct"
    [] field = "Mutation.deleteProduct" -> "deleteProduct"
    [] field = "Query.notifications" -> "getUserNotifications"
    [] field = "Query.unreadNotificationCount" -> "getUnreadCount"
    [] field = "Mutation.createNotification" -> "createNotification"
    [] field = "Mutation.markNotificationAsRead" -> "markAsRead"
    [] field = "Mutation.deleteNotification" -> "deleteNotification"
    [] field = "Query.account" -> "getAccountById"
    [] field = "Query.customer" -> "getCustomerById"
    [] field = "Account.customer" -> "getCustomerById"
    [] field = "Customer.accounts" -> "getAccountsByCustomerId"
    [] OTHER -> "healthCheck"

\* What the engine may hand to a resolver.  An id is a string; limit and
\* offset are nullable Int arguments with a default, so an explicit null
\* gets through; category is a nullable String; an input is an object.
\* For the relational fields `id` is the key read off the parent
\* (account.customerId, customer.id).
Ids == {IdA, IdB}
PageArgs == {JNull, JZero, JSeven}
CategoryArgs == {Undefined, JNull, JEmptyStr, JText}
ResolverArgs(field) ==
  CASE field \in {"Query.users"} ->
         {[NoArgs EXCEPT !.limit = l, !.offset = o] : l \in PageArgs, o \in PageArgs}
    [] field = "Query.products" ->
         {[NoArgs EXCEPT !.category = cat, !.limit = l, !.offset = o] :
            cat \in CategoryArgs, l \in PageArgs, o \in PageArgs}
    [] field = "Query.notifications" ->
         {[NoArgs EXCEPT !.id = i, !.limit = l, !.offset = o] :
            i \in Ids, l \in PageArgs, o \in PageArgs}
    [] field \in {"Mutation.createUser", "Mutation.createProduct",
                  "Mutation.createNotification"} ->
         {[NoArgs EXCEPT !.input = JObj]}
    [] field \in {"Mutation.updateUser", "Mutation.updateProduct"} ->
         {[NoArgs EXCEPT !.id = i, !.input = JObj] : i \in Ids}
    [] field = HealthField -> {NoArgs}
    [] OTHER -> {[NoArgs EXCEPT !.id = i] : i \in Ids}

\* The arguments a resolver calls its service-client method with: the ones
\* it received, under the same names.
ServiceArgs(field, a) ==
  CASE field = "Query.users" -> [NoArgs EXCEPT !.limit = a.limit, !.offset = a.offset]
    [] field = "Query.products" ->
         [NoArgs EXCEPT !.category = a.category, !.limit = a.limit,
                        !.offset = a.offset]
    [] field = "Query.notifications" ->
         [NoArgs EXCEPT !.id = a.id, !.limit = a.limit, !.offset = a.offset]
    [] field \in {"Mutation.createUser", "Mutation.createProduct",
                  "Mutation.createNotification"} ->
         [NoArgs EXCEPT !.input = a.input]
    [] field \in {"Mutation.updateUser", "Mutation.updateProduct"} ->
         [NoArgs EXCEPT !.id = a.id, !.input = a.input]
    [] field = HealthField -> NoArgs
    [] OTHER -> [NoArgs EXCEPT !.id = a.id]

\* The downstream service a service-client method talks to.
ServiceName(op) ==
  CASE op \in UserOps -> "user-service"
    [] op \in ProductOps -> "product-service"
    [] op \in NotificationOps -> "notification-service"
    [] op \in {"getAccountById", "getAccountsByCustomerId"} -> "account-service"
    [] op = "getCustomerById" -> "customer-service"
    [] OTHER -> ""

\* Variant: the user and product clients take part as well.
HealthChecksOfEveryClient == <<"user-service", "product-service", "notification-service">>

\* Query.health: the clients whose healthCheck() is handed to
\* Promise.allSettled, under the names the entries are given.
HealthChecks == <<"notification-service">>

\* accountResolver / customerResolver catch what the service threw and
\* throw a GraphQLError; the user, product and notification resolvers have
\* no try / catch.
Wraps(field) == field \in AccountFields \cup RelationalFields

\* The execution context a resolver is handed as its third argument: an
\* object with a requestId, an object without one, or nothing at all.
NoContext == [given |-> FALSE, requestId |-> Undefined]
RequestContext == [given |-> TRUE, requestId |-> JText]
Contexts == {RequestContext, [given |-> TRUE, requestId |-> Undefined], NoContext}

\* console.log(`[${context.requestId || 'unknown'}] ...`), the first
\* statement of the account and customer resolvers, ahead of their try:
\* whether evaluating it throws.
LogThrows(field, context) == Wraps(field) /\ ~context.given

\* The message of the GraphQLError thrown for a value that is not an Error.
ResolverFallback(field) ==
  CASE field = "Query.account" -> "Failed to fetch account"
    [] field = "Customer.accounts" -> "Failed to fetch accounts"
    [] OTHER -> "Failed to fetch customer"

GraphQLErr(m) == [isError |-> TRUE, name |-> "GraphQLError", message |-> m]

\* Variant: a resolver that returns null in place of what the service
\* returned or threw.
ResolverOutcomeSwallowing(field, out) == Returned(JNull)

\* What a pass-through resolver returns or throws once the service-client
\* method it awaited has settled with `out`.
ResolverOutcome(field, out) ==
  IF Wraps(field) /\ out.raised
  THEN Raised(GraphQLErr(IF out.thrown.isError THEN out.thrown.message
                         ELSE Lit(ResolverFallback(field))))
  ELSE out

(* --------------------------- health aggregator ------------------------ *)

\* An element of what Promise.allSettled resolves to, for a health check
\* that ended with `out`.
Settled(out) ==
  IF out.raised THEN [status |-> "rejected", value |-> NoOut]
  ELSE [status |-> "fulfilled", value |-> out]

\* `result.value.responseTime` throws when the fulfilled value is not an
\* object.
MapThrows(results) ==
  \E j \in DOMAIN results :
    results[j].status = "fulfilled" /\ results[j].value.health = ""

\* The entry of services.map for one settled check.
ServiceHealth(name, result) ==
  IF result.status = "fulfilled"
  THEN [name |-> name, status |-> "healthy",
        responseTime |-> [t |-> "num", n |-> result.value.rt]]
  ELSE [name |-> name, status |-> "unhealthy", responseTime |-> JNull]

\* Variant: the top-level status follows the downstream checks.
HealthReportRollingUp(results) ==
  IF MapThrows(results) THEN [raised |-> FALSE, status |-> "unhealthy", services |-> << >>]
  ELSE [raised |-> FALSE,
        status |-> IF \A j \in DOMAIN results :
                        results[j].status = "fulfilled"
                          /\ results[j].value.health = "healthy"
                   THEN "healthy" ELSE "unhealthy",
        services |-> [j \in DOMAIN results |-> ServiceHealth(HealthChecks[j], results[j])]]

\* What Query.health returns once Promise.allSettled has resolved to
\* `results`: the try branch, and the catch branch when the mapping throws.
HealthReport(results) ==
  IF MapThrows(results) THEN [raised |-> FALSE, status |-> "unhealthy", services |-> << >>]
  ELSE [raised |-> FALSE, status |-> "healthy",
        services |-> [j \in DOMAIN results |-> ServiceHealth(HealthChecks[j], results[j])]]

(* ------------------------------ HttpClient ---------------------------- *)

\* A string, as the chunks it is made of: a "/" the code may look at is a
\* chunk of its own.
Host == "http://example.com"
\* Base URLs a client may be constructed with.
BaseUrls ==
  {<<Host>>, <<Host, "/">>, <<Host, "/", "/">>, <<Host, "/", "api">>,
   <<Host, "/", "api", "/">>}
\* Paths a caller may pass to get / post / put / delete.
Paths == {<<"/", "path">>, <<"path">>, <<"/">>, << >>, <<"/", "path", "/">>}

\* Variant: a constructor that keeps the base URL as it was given.
StripTrailingSlashKeeping(s) == s

\* baseUrl.replace(/\/$/, ''): one slash, at the very end.
StripTrailingSlash(s) ==
  IF s # << >> /\ s[Len(s)] = "/" THEN SubSeq(s, 1, Len(s) - 1) ELSE s

\* Variant: a slash inserted between base and path where the path has none.
UrlJoining(base, path) ==
  IF path # << >> /\ path[1] = "/" THEN base \o path ELSE base \o <<"/">> \o path

\* `${this.baseUrl}${path}`
Url(base, path) == base \o path

\* A header map: header name to value.
NoHeaders == << >>
\* { ...a, ...b }: the entries of b win.
Spread(a, b) ==
  [n \in DOMAIN a \cup DOMAIN b |-> IF n \in DOMAIN b THEN b[n] ELSE a[n]]
\* The two headers every client starts from.
BuiltinHeaders ==
  ("Content-Type" :> "application/json") @@ ("User-Agent" :> "conduites-bff/1.0.0")
\* Header maps a caller may pass, to the constructor or with one call.
HeaderArgs ==
  {NoHeaders, "X-Custom" :> "custom-value", "Content-Type" :> "text/plain"}

\* HttpClientOptions: timeout 0 stands for an absent (or zero) timeout.
NoOptions == [timeout |-> 0, headers |-> NoHeaders]
OptionArgs == [timeout : {0, Timeout}, headers : HeaderArgs]

\* new HttpClient(baseUrl, options); appConfig.request.timeout is Timeout.
\* `ctor` remembers the arguments the constructor was given.
NewHttpClient(baseUrl, options) ==
  [ctor |-> [baseUrl |-> baseUrl, options |-> options],
   baseUrl |-> StripTrailingSlash(baseUrl),
   timeout |-> IF options.timeout # 0 THEN options.timeout ELSE Timeout,
   defaultHeaders |-> Spread(BuiltinHeaders, options.headers)]

\* Variant: per-call headers of earlier calls kept among the defaults.
RequestHeadersAccumulating(defaults, headers) ==
  LET Kept[i \in 0..Len(calls)] ==
        IF i = 0 THEN defaults ELSE Spread(Kept[i - 1], calls[i].given) IN
  Spread(Kept[Len(calls)], headers)

\* const requestHeaders = { ...this.defaultHeaders, ...headers }
RequestHeaders(defaults, headers) == Spread(defaults, headers)

(* ------------------------------- cluster ------------------------------ *)

\* The primary process (not started; supervising its workers; or serving
\* by itself), the workers forked so far in the order of their ids, and the
\* 'exit' events the primary has yet to handle.
NoCluster == [primary |-> "new", workers |-> << >>, events |-> << >>]

\* cluster.fork(): one more worker process, about to run startServer.
Fork(cl) == [cl EXCEPT !.workers = Append(@, [st |-> "forked", exit |-> "none"])]

\* for (let i = 0; i < numCPUs; i++) cluster.fork()
RECURSIVE ForkTimes(_, _)
ForkTimes(cl, n) == IF n = 0 THEN cl ELSE ForkTimes(Fork(cl), n - 1)

\* Worker w is gone, with exit code or signal `how`; the primary is sent
\* an 'exit' event.
Exit(cl, w, how) ==
  [cl EXCEPT !.workers[w] = [st |-> "exited", exit |-> how],
             !.events = Append(@, w)]

\* Variant: a handler that replaces only the workers that did not exit
\* with code 0.
HandleExitOfCrashed(cl, w) == IF cl.workers[w].exit = "0" THEN cl ELSE Fork(cl)

\* cluster.on('exit', (worker, code, signal) => { ...; cluster.fork(); })
HandleExit(cl, w) == Fork(cl)

\* The workers that have not exited, and those on their way out or gone.
Live(cl) == {w \in DOMAIN cl.workers : cl.workers[w].st # "exited"}
Departures(cl) == {w \in DOMAIN cl.workers : cl.workers[w].st \in {"closing", "exited"}}

(* -------------------------------- state ------------------------------- *)

\* One invocation: the operation, where it is suspended, its arguments,
\* its deadline timer, what it sent, what it received, what it returned.
NewCall ==
  [op |-> "none", pc |-> "new", data |-> Undefined, start |-> 0, endAt |-> 0,
   method |-> "", path |-> << >>, timer |-> "none", fetches |-> 0, body |-> NoBody,
   status |-> 0, statusText |-> "", reads |-> 0, parsed |-> Undefined,
   jsonOk |-> FALSE, caught |-> NoThrown, res |-> NoRes, out |-> NoOut,
   field |-> "none", rid |-> 0, args |-> NoArgs,
   query |-> {}, requests |-> 0, service |-> "",
   url |-> << >>, given |-> NoHeaders, headers |-> NoHeaders, svc |-> 0]

\* No response yet.
NoResponse == [sent |-> FALSE, data |-> << >>, nulled |-> FALSE, errors |-> {}]

Init ==
  /\ now = 0
  /\ calls = << >>
  /\ client = NewHttpClient(<<Host>>, NoOptions)
  /\ cluster = NoCluster
  /\ nodeEnv = "development"
  /\ invoked = << >>
  /\ pending = << >>
  /\ response = NoResponse

\* HttpClient.request returns res to the operation that awaited it.
Finish(k, res, t) ==
  [k EXCEPT !.pc = "done", !.endAt = t, !.res = res,
            !.out = OpResult(k.op, res, t - k.start)]

\* Variant: a direct client that returns null where it would throw.
FinishDirectRecovering(k, out, t) ==
  [k EXCEPT !.pc = "done", !.endAt = t,
            !.out = IF out.raised THEN Returned(JNull) ELSE out]

\* A direct client returns or throws.
FinishDirect(k, out, t) == [k EXCEPT !.pc = "done", !.endAt = t, !.out = out]

InFlight(k) == k.pc \in {"fetch", "json"}

(* -------------------------- resolver invocation ----------------------- *)

\* HttpClient.request(method, path, data, headers) for invocation k, run at
\* instant t up to its first await.
RequestOf(k, path, headers, data, t) ==
  LET r == [k EXCEPT !.path = path, !.given = headers,
                     !.url = Url(client.baseUrl, path),
                     !.headers = RequestHeaders(client.defaultHeaders, headers),
                     !.timer = "armed", !.requests = RequestsPerOp(k.op)] IN
  IF Truthy(data) /\ ~CanStringify(data)
  THEN Finish([r EXCEPT !.caught = CircularErr], RequestCatch(CircularErr), t)
  ELSE [r EXCEPT !.pc = "fetch", !.fetches = 1, !.body = BodyField(data)]

\* The invocation of `op` with arguments a and body argument data, made
\* at instant t by resolver invocation rid of `field` (field "none": by any
\* other caller), run up to its first await; svc counts the invocations of
\* the service-client method.
CallOf(field, rid, op, a, data, t) ==
  LET k == [NewCall EXCEPT !.op = op, !.data = data, !.start = t,
                           !.method = Method(op), !.path = <<Path(op)>>,
                           !.field = field, !.rid = rid, !.args = a,
                           !.svc = 1] IN
  IF ThrowsBeforeCall(op, a)
  THEN FinishDirect(k, Raised(NullishErr), t)
  ELSE LET q == [k EXCEPT !.query = Query(op, a)] IN
       IF op \in DirectOps
       THEN [q EXCEPT !.pc = "fetch", !.fetches = 1]
       ELSE RequestOf(q, <<Path(op)>>, NoHeaders, data, t)

\* The calls resolver invocation rid makes when the engine invokes it at
\* instant t: a pass-through resolver awaits its one service-client method,
\* Query.health starts every health check before it awaits any; a resolver
\* whose log statement throws is over before it has called anything.
ResolverCalls(inv, rid, t) ==
  IF LogThrows(inv.field, inv.context)
  THEN << FinishDirect([NewCall EXCEPT !.op = ServiceOf(inv.field), !.start = t,
                                       !.field = inv.field, !.rid = rid,
                                       !.args = ServiceArgs(inv.field, inv.args)],
                       Raised(ContextErr), t) >>
  ELSE IF inv.field = HealthField
  THEN [j \in 1..Len(HealthChecks) |->
          [CallOf(HealthField, rid, "healthCheck", NoArgs, Undefined, t)
             EXCEPT !.service = HealthChecks[j]]]
  ELSE LET op == ServiceOf(inv.field)
           a == ServiceArgs(inv.field, inv.args) IN
       << [CallOf(inv.field, rid, op, a, DataArg(op, a), t)
             EXCEPT !.service = ServiceName(op)] >>

\* Variant: resolver invocations with the arguments of an earlier one of the
\* same field share its call.
RECURSIVE FanoutDeduplicated(_, _, _)
FanoutDeduplicated(invs, rid, t) ==
  IF rid > Len(invs) THEN << >>
  ELSE (IF \E j \in 1..(rid - 1) : invs[j] = invs[rid] THEN << >>
        ELSE ResolverCalls(invs[rid], rid, t))
       \o FanoutDeduplicated(invs, rid + 1, t)

\* The calls made by the resolver invocations invs[rid..], each invocation
\* on its own: there is no batching layer between engine and clients.
RECURSIVE Fanout(_, _, _)
Fanout(invs, rid, t) ==
  IF rid > Len(invs) THEN << >>
  ELSE ResolverCalls(invs[rid], rid, t) \o Fanout(invs, rid + 1, t)

\* The engine invokes the resolvers of invs (sibling fields of one
\* selection set, or one relational field on several parents) in one go;
\* each runs up to its first await.
Execute(invs) ==
  /\ calls = << >>
  /\ invoked = << >>
  /\ invoked' = invs
  /\ calls' = Fanout(invs, 1, now)
  /\ UNCHANGED <<now, client, cluster, nodeEnv, pending, response>>

(* ------------------------------- engine ------------------------------ *)

\* The fields of the schema built from typeDefs: Query, and Mutation, whose
\* fields the engine runs one after the other.
QueryFields ==
  {"Query.user", "Query.users", "Query.product", "Query.products",
   "Query.notifications", "Query.unreadNotificationCount", HealthField}
MutationFields ==
  (UserFields \cup ProductFields \cup NotificationFields) \ QueryFields

\* typeDefs: `user(id: ID!): User` and `product(id: ID!): Product` are the
\* only fields of Query and Mutation whose type does not end in `!`.
NonNull(field) == field \notin {"Query.user", "Query.product"}

NodeEnvs == {"development", "production"}
\* createYoga({ maskedErrors: appConfig.server.nodeEnv === 'production' })
MaskedErrors(env) == env = "production"

\* Variant: the message of every error is shown.
VisibleUnmasked(thrown, masked) == thrown.message

\* The message of the error entry for what a resolver threw: with masking
\* on, anything but a GraphQLError is replaced.
Visible(thrown, masked) ==
  IF masked /\ thrown.name # "GraphQLError" THEN Lit("Unexpected error.")
  ELSE thrown.message

\* The calls of resolver invocation r, and whether all of them have settled.
CallsOf(r) == {c \in Slots : calls[c].rid = r}
FieldSettled(r) == CallsOf(r) # {} /\ \A c \in CallsOf(r) : calls[c].pc = "done"
\* The checks Query.health started as invocation r, in the order of the
\* array it handed to Promise.allSettled.
ChecksOf(r) ==
  LET first == CHOOSE c \in CallsOf(r) : \A d \in CallsOf(r) : c <= d IN
  [j \in 1..Cardinality(CallsOf(r)) |-> calls[first + j - 1]]
HealthOf(r) == HealthReport([j \in DOMAIN ChecksOf(r) |-> Settled(ChecksOf(r)[j].out)])
\* What resolver invocation r, once settled, hands to the engine.
HandedBy(r) ==
  IF invoked[r].field = HealthField THEN NoOut
  ELSE LET c == CHOOSE c \in CallsOf(r) : TRUE IN
       IF calls[c].svc = 0 THEN calls[c].out
       ELSE ResolverOutcome(invoked[r].field, calls[c].out)
FieldFailed(r) == FieldSettled(r) /\ HandedBy(r).raised
FieldValue(r) ==
  IF invoked[r].field = HealthField THEN HealthOf(r) ELSE HandedBy(r).val

\* The engine answers as soon as a non-null field has failed, and else when
\* every field of the selection has settled.
ResponseDue ==
  /\ invoked # << >>
  /\ \/ \E r \in DOMAIN invoked : FieldFailed(r) /\ NonNull(invoked[r].field)
     \/ pending = << >> /\ \A r \in DOMAIN invoked : FieldSettled(r)

\* The response: an error entry per failed field; a failed nullable field
\* is null; a failed non-null field nulls its parent, which is `data`.
ResponseOf(env) ==
  LET failed == {r \in DOMAIN invoked : FieldFailed(r)}
      nulled == \E r \in failed : NonNull(invoked[r].field) IN
  [sent |-> TRUE,
   nulled |-> nulled,
   data |-> IF nulled THEN << >>
            ELSE [r \in DOMAIN invoked |->
                    IF r \in failed THEN JNull ELSE FieldValue(r)],
   errors |-> {[path |-> r,
                message |-> Visible(HandedBy(r).thrown, MaskedErrors(env))] :
                 r \in failed}]

\* The engine starts a mutation: the resolver of its first field runs up to
\* its first await, the other fields wait.
Mutate(invs) ==
  /\ calls = << >>
  /\ invoked = << >>
  /\ invoked' = << Head(invs) >>
  /\ pending' = Tail(invs)
  /\ calls' = ResolverCalls(Head(invs), 1, now)
  /\ UNCHANGED <<now, client, cluster, nodeEnv, response>>

\* The previous field of a mutation has resolved: the next one starts.
NextField ==
  /\ pending # << >>
  /\ ~ResponseDue
  /\ \A r \in DOMAIN invoked : FieldSettled(r)
  /\ invoked' = Append(invoked, Head(pending))
  /\ pending' = Tail(pending)
  /\ calls' = calls \o ResolverCalls(Head(pending), Len(invoked) + 1, now)
  /\ UNCHANGED <<now, client, cluster, nodeEnv, response>>

\* The engine sends the response of the operation.
Respond ==
  /\ ~response.sent
  /\ ResponseDue
  /\ response' = ResponseOf(nodeEnv)
  /\ UNCHANGED <<now, calls, client, cluster, nodeEnv, invoked, pending>>

(* ---------------------------- client actions -------------------------- *)

\* The operation is invoked (at most n invocations in all) and runs up to
\* its first await.
Start(n, op, data) ==
  /\ Len(calls) < n
  /\ calls' = Append(calls, CallOf("none", 0, op, PlainArgs(data), data, now))
  /\ UNCHANGED <<now, client, cluster, engine>>

\* fetch resolves with a response carrying `status`.
FetchResolve(c, status, text) ==
  /\ c \in DOMAIN calls
  /\ calls[c].pc = "fetch"
  /\ LET k == [calls[c] EXCEPT !.status = status, !.statusText = text] IN
     calls' = [calls EXCEPT ![c] =
       IF k.op \in DirectOps
       THEN IF ~Ok(status)
            THEN FinishDirect(k,
                   Raised(NewError(DirectMsg(DirectWhat(k.op), k.args.id, status, text))),
                   now)
            ELSE [k EXCEPT !.pc = "json", !.reads = 1]
       ELSE LET a == [k EXCEPT !.timer = ClearTimeout(k.timer)] IN
            IF ~Ok(status)
            THEN Finish(a, HttpFailure(status, text), now)
            ELSE [a EXCEPT !.pc = "json", !.reads = 1]]
  /\ UNCHANGED <<now, client, cluster, engine>>

\* fetch rejects on its own (network failure, any throwable).
FetchReject(c, th) ==
  /\ c \in DOMAIN calls
  /\ calls[c].pc = "fetch"
  /\ LET k == calls[c] IN
     calls' = [calls EXCEPT ![c] =
       IF k.op \in DirectOps
       THEN FinishDirect(k, Raised(th), now)
       ELSE Finish([k EXCEPT !.caught = th], RequestCatch(th), now)]
  /\ UNCHANGED <<now, client, cluster, engine>>

\* response.json() resolves with the parsed body.
JsonResolve(c, v) ==
  /\ c \in DOMAIN calls
  /\ calls[c].pc = "json"
  /\ LET k == [calls[c] EXCEPT !.parsed = v, !.jsonOk = TRUE] IN
     calls' = [calls EXCEPT ![c] =
       IF k.op \in DirectOps
       THEN FinishDirect(k, Returned(v), now)
       ELSE Finish(k, HttpSuccess(k.status, v), now)]
  /\ UNCHANGED <<now, client, cluster, engine>>

\* response.json() rejects (parse failure, any throwable).
JsonReject(c, th) ==
  /\ c \in DOMAIN calls
  /\ calls[c].pc = "json"
  /\ LET k == calls[c] IN
     calls' = [calls EXCEPT ![c] =
       IF k.op \in DirectOps
       THEN FinishDirect(k, Raised(th), now)
       ELSE Finish([k EXCEPT !.caught = th], RequestCatch(th), now)]
  /\ UNCHANGED <<now, client, cluster, engine>>

\* The deadline timer of call c runs controller.abort(); the transport
\* rejects the awaited promise of every call the signal belongs to.
TimerFire(c) ==
  /\ c \in DOMAIN calls
  /\ calls[c].timer = "armed"
  /\ now >= Deadline(calls[c].start)
  /\ calls' = [d \in DOMAIN calls |->
       LET k == IF d = c THEN [calls[d] EXCEPT !.timer = "fired"] ELSE calls[d] IN
       IF d \in AbortTargets(c) /\ InFlight(k) /\ k.op \notin DirectOps
       THEN Finish([k EXCEPT !.caught = AbortErr], RequestCatch(AbortErr), now)
       ELSE k]
  /\ UNCHANGED <<now, client, cluster, engine>>

\* Time passes; a timer that is due runs before the clock moves on.
Tick ==
  /\ now < MaxTime
  /\ \E c \in Slots : InFlight(calls[c]) \/ calls[c].timer = "armed"
  /\ \A c \in Slots : calls[c].timer = "armed" => now < Deadline(calls[c].start)
  /\ now' = now + 1
  /\ UNCHANGED <<calls, client, cluster, engine>>

\* get / post / put / delete called with a path, per-call headers and a
\* body argument (at most n calls in all), run up to the first await.
Request(n, op, path, headers, data) ==
  /\ Len(calls) < n
  /\ calls' = Append(calls,
       RequestOf([NewCall EXCEPT !.op = op, !.data = data, !.start = now,
                                 !.method = Method(op), !.args = PlainArgs(data)],
                 path, headers, data, now))
  /\ UNCHANGED <<now, client, cluster, engine>>

(* --------------------------- cluster actions -------------------------- *)

\* The entry point runs in the primary process: in production it forks one
\* worker per CPU and registers the 'exit' handler, else it serves itself.
PrimaryStart ==
  /\ cluster.primary = "new"
  /\ cluster' = IF nodeEnv = "production"
                THEN [ForkTimes(cluster, NumCPUs) EXCEPT !.primary = "supervising"]
                ELSE [cluster EXCEPT !.primary = "serving"]
  /\ UNCHANGED <<now, calls, client, engine>>

\* startServer() of worker w: app.listen succeeded, the signal handlers
\* are registered.
WorkerListens(w) ==
  /\ w \in DOMAIN cluster.workers
  /\ cluster.workers[w].st = "forked"
  /\ cluster' = [cluster EXCEPT !.workers[w].st = "listening"]
  /\ UNCHANGED <<now, calls, client, engine>>

\* startServer() of worker w threw: process.exit(1).
WorkerStartFails(w) ==
  /\ w \in DOMAIN cluster.workers
  /\ cluster.workers[w].st = "forked"
  /\ Cardinality(Departures(cluster)) < MaxExits
  /\ cluster' = Exit(cluster, w, "1")
  /\ UNCHANGED <<now, calls, client, engine>>

\* Worker w receives SIGTERM or SIGINT: shutdown() calls server.close.
WorkerSignalled(w) ==
  /\ w \in DOMAIN cluster.workers
  /\ cluster.workers[w].st = "listening"
  /\ Cardinality(Departures(cluster)) < MaxExits
  /\ cluster' = [cluster EXCEPT !.workers[w].st = "closing"]
  /\ UNCHANGED <<now, calls, client, engine>>

\* The server of worker w has closed: process.exit(0).
WorkerClosed(w) ==
  /\ w \in DOMAIN cluster.workers
  /\ cluster.workers[w].st = "closing"
  /\ cluster' = Exit(cluster, w, "0")
  /\ UNCHANGED <<now, calls, client, engine>>

\* Worker w crashes or is killed.
WorkerKilled(w) ==
  /\ w \in DOMAIN cluster.workers
  /\ cluster.workers[w].st \in {"forked", "listening", "closing"}
  /\ w \in Departures(cluster) \/ Cardinality(Departures(cluster)) < MaxExits
  /\ cluster' = Exit(cluster, w, "SIGKILL")
  /\ UNCHANGED <<now, calls, client, engine>>

\* The primary handles the oldest 'exit' event.
PrimaryOnExit ==
  /\ cluster.events # << >>
  /\ cluster' = HandleExit([cluster EXCEPT !.events = Tail(@)], Head(cluster.events))
  /\ UNCHANGED <<now, calls, client, engine>>

(* ---------------------------- specifications -------------------------- *)

AllOps == RawOps \cup ServiceOps

\* One invocation of any operation against any downstream behaviour.
Next ==
  \/ \E op \in AllOps : \E data \in DataOf(op) : Start(1, op, data)
  \/ \E status \in Statuses : \E text \in StatusTexts(status) : FetchResolve(1, status, text)
  \/ \E th \in FetchThrows : FetchReject(1, th)
  \/ \E v \in Bodies : JsonResolve(1, v)
  \/ \E th \in JsonThrows : JsonReject(1, th)
  \/ TimerFire(1)
  \/ Tick

Spec == Init /\ [][Next]_vars

\* The same, where the clock keeps running and a timer that is due does
\* fire; the downstream is free to answer late or never.
SpecFair == Spec /\ WF_vars(Tick) /\ WF_vars(TimerFire(1))

\* Several plain GET calls in flight at once on one HttpClient.
ConcStatuses == {200, 404}
NextConc ==
  \/ Start(MaxCalls, "get", Undefined)
  \/ \E c \in 1..MaxCalls : \E status \in ConcStatuses :
       FetchResolve(c, status, StatusText(status))
  \/ \E c \in 1..MaxCalls : FetchReject(c, NetErr)
  \/ \E c \in 1..MaxCalls : JsonResolve(c, JObj)
  \/ \E c \in 1..MaxCalls : JsonReject(c, SyntaxErr)
  \/ \E c \in 1..MaxCalls : TimerFire(c)
  \/ Tick

SpecConc == Init /\ [][NextConc]_vars

\* One call on a client constructed with any base URL and any options.
InitUrl ==
  /\ now = 0
  /\ calls = << >>
  /\ client \in {NewHttpClient(b, o) : b \in BaseUrls, o \in OptionArgs}
  /\ cluster = NoCluster
  /\ nodeEnv = "development"
  /\ invoked = << >>
  /\ pending = << >>
  /\ response = NoResponse

PathOps == {"get", "post", "put", "delete"}
\* The body argument of a plain call: an object for post and put.
PlainData(op) == IF op \in {"post", "put"} THEN JObj ELSE Undefined

NextUrl ==
  \/ \E op \in PathOps : \E path \in Paths : \E h \in HeaderArgs :
       Request(1, op, path, h, PlainData(op))
  \/ Start(1, "healthCheck", Undefined)
  \/ \E status \in ConcStatuses : FetchResolve(1, status, StatusText(status))
  \/ FetchReject(1, NetErr)
  \/ JsonResolve(1, JObj)
  \/ JsonReject(1, SyntaxErr)
  \/ TimerFire(1)
  \/ Tick

SpecUrl == InitUrl /\ [][NextUrl]_vars

\* The process tree of the gateway in either environment; the event loop
\* of the primary delivers every 'exit' event.
InitCluster ==
  /\ now = 0
  /\ calls = << >>
  /\ client = NewHttpClient(<<Host>>, NoOptions)
  /\ cluster = NoCluster
  /\ nodeEnv \in NodeEnvs
  /\ invoked = << >>
  /\ pending = << >>
  /\ response = NoResponse

WorkerIds == 1..(NumCPUs + MaxExits)
NextCluster ==
  \/ PrimaryStart
  \/ \E w \in WorkerIds : WorkerListens(w)
  \/ \E w \in WorkerIds : WorkerStartFails(w)
  \/ \E w \in WorkerIds : WorkerSignalled(w)
  \/ \E w \in WorkerIds : WorkerClosed(w)
  \/ \E w \in WorkerIds : WorkerKilled(w)
  \/ PrimaryOnExit

SpecCluster == InitCluster /\ [][NextCluster]_vars /\ WF_vars(PrimaryOnExit)

\* Several calls of any method, with any per-call headers, in flight at
\* once on one client constructed with or without headers of its own.
InitSeq ==
  /\ now = 0
  /\ calls = << >>
  /\ client \in {NewHttpClient(<<Host, "/">>, [timeout |-> Timeout, headers |-> h]) :
                   h \in {NoHeaders, "Content-Type" :> "text/plain"}}
  /\ cluster = NoCluster
  /\ nodeEnv = "development"
  /\ invoked = << >>
  /\ pending = << >>
  /\ response = NoResponse

SeqHeaders == {NoHeaders, "X-Custom" :> "custom-value"}

NextSeq ==
  \/ \E op \in PathOps : \E h \in SeqHeaders :
       Request(MaxCalls, op, <<"/", "path">>, h, PlainData(op))
  \/ Start(MaxCalls, "healthCheck", Undefined)
  \/ \E c \in 1..MaxCalls : \E status \in ConcStatuses :
       FetchResolve(c, status, StatusText(status))
  \/ \E c \in 1..MaxCalls : FetchReject(c, NetErr)
  \/ \E c \in 1..MaxCalls : JsonResolve(c, JObj)

SpecSeq == InitSeq /\ [][NextSeq]_vars

InvocationIn(field, a, context) == [field |-> field, args |-> a, context |-> context]
Invocation(field, a) == InvocationIn(field, a, RequestContext)

\* One invocation of an account or customer resolver in any execution
\* context, against any behaviour of the downstream.
NextCtx ==
  \/ \E field \in AccountFields \cup RelationalFields :
       \E a \in ResolverArgs(field) : \E context \in Contexts :
         Execute(<< InvocationIn(field, a, context) >>)
  \/ \E status \in Statuses : \E text \in StatusTexts(status) : FetchResolve(1, status, text)
  \/ \E th \in FetchThrows : FetchReject(1, th)
  \/ \E v \in Bodies : JsonResolve(1, v)
  \/ \E th \in JsonThrows : JsonReject(1, th)

SpecCtx == Init /\ [][NextCtx]_vars

\* One resolver invocation of any field with any arguments, against any
\* downstream behaviour.
NextGraph ==
  \/ \E field \in Fields : \E a \in ResolverArgs(field) :
       Execute(<< Invocation(field, a) >>)
  \/ \E status \in Statuses : \E text \in StatusTexts(status) : FetchResolve(1, status, text)
  \/ \E th \in FetchThrows : FetchReject(1, th)
  \/ \E v \in Bodies : JsonResolve(1, v)
  \/ \E th \in JsonThrows : JsonReject(1, th)
  \/ TimerFire(1)
  \/ Tick

SpecGraph == Init /\ [][NextGraph]_vars

\* The parent objects a relational field is resolved on, by the key read
\* off each: up to n parents, which may share a key.
Parents(n) == UNION {[1..m -> Ids] : m \in 1..n}

\* One relational field resolved on several parents at once.
NextRel ==
  \/ \E field \in RelationalFields : \E keys \in Parents(MaxCalls) :
       Execute([i \in DOMAIN keys |-> Invocation(field, [NoArgs EXCEPT !.id = keys[i]])])
  \/ \E c \in 1..MaxCalls : \E status \in ConcStatuses :
       FetchResolve(c, status, StatusText(status))
  \/ \E c \in 1..MaxCalls : FetchReject(c, NetErr)
  \/ \E c \in 1..MaxCalls : JsonResolve(c, JObj)
  \/ \E c \in 1..MaxCalls : JsonReject(c, SyntaxErr)

SpecRel == Init /\ [][NextRel]_vars

\* The server may run in either environment.
InitOp ==
  /\ now = 0
  /\ calls = << >>
  /\ client = NewHttpClient(<<Host>>, NoOptions)
  /\ cluster = NoCluster
  /\ nodeEnv \in NodeEnvs
  /\ invoked = << >>
  /\ pending = << >>
  /\ response = NoResponse

\* Selections of up to n fields, each with well-formed arguments (aliases
\* let a field appear more than once).
Selections(fields, n) ==
  UNION {[1..m -> {Invocation(f, ServiceArgs(f, PlainArgs(JObj))) : f \in fields}] :
           m \in 1..n}

\* While the operation runs, a downstream answers call c, and delivers the
\* body of its answer; the operation is over once its response is due.
Answer(c, status) == ~ResponseDue /\ FetchResolve(c, status, StatusText(status))
Deliver(c) == ~ResponseDue /\ JsonResolve(c, JObj)

\* One GraphQL operation, a query or a mutation, against downstreams that
\* answer 200 with a JSON body or 404.
NextOp ==
  \/ \E invs \in Selections(QueryFields, MaxCalls) : Execute(invs)
  \/ \E invs \in Selections(MutationFields, MaxCalls) : Mutate(invs)
  \/ NextField
  \/ Respond
  \/ \E c \in 1..MaxCalls : \E status \in ConcStatuses : Answer(c, status)
  \/ \E c \in 1..MaxCalls : Deliver(c)

SpecOp == InitOp /\ [][NextOp]_vars

(* -------------------------------- claims ------------------------------ *)

Done(k) == k.pc = "done"
\* The call goes through HttpClient.request.
ViaHttpClient(k) == k.op \in RawOps \cup EnvelopeOps

\* C1: a call through HttpClient.request that is not over when its timeout
\* has elapsed ends as {status: 408, error: "Request timeout"}, whichever
\* phase (waiting for the headers, reading the body) outlasts the deadline:
\* a call that returned later than start + timeout returned the 408 shape.
C1_TimeoutYields408 ==
  \A c \in Slots :
    LET k == calls[c] IN
    (ViaHttpClient(k) /\ Done(k) /\ k.endAt > k.start + Timeout) =>
      k.res = [NoRes EXCEPT !.status = 408, !.hasError = TRUE,
                            !.error = Lit("Request timeout")]

\* C2 as stated: every 2xx response yields {status, data} and no error.
C2_Every2xxYieldsData ==
  \A c \in Slots :
    LET k == calls[c] IN
    (Done(k) /\ ViaHttpClient(k) /\ Ok(k.status)) =>
      /\ k.res.status = k.status
      /\ k.res.hasData
      /\ ~k.res.hasError

\* C2 amended: every 2xx response whose body response.json() parsed
\* yields {status: that status, data: the parsed body} and no error field.
C2_Parsed2xxYieldsData ==
  \A c \in Slots :
    LET k == calls[c] IN
    (Done(k) /\ ViaHttpClient(k) /\ Ok(k.status) /\ k.jsonOk) =>
      /\ ~k.res.raised
      /\ k.res.status = k.status
      /\ k.res.hasData /\ k.res.data = k.parsed
      /\ ~k.res.hasError

C2_Witness ==
  \E c \in Slots :
    /\ Done(calls[c]) /\ calls[c].op = "get"
    /\ calls[c].status = 204 /\ calls[c].jsonOk
    /\ calls[c].res.status = 204 /\ calls[c].res.data = JNull

\* C3: every response with a status outside [200,299] yields
\* {status, error: "HTTP <status>: <status text>"}, no data field, and its
\* body is never read.
C3_Non2xxYieldsError ==
  \A c \in Slots :
    LET k == calls[c] IN
    (ViaHttpClient(k) /\ k.status # 0 /\ ~(k.status >= 200 /\ k.status <= 299)) =>
      /\ Done(k)
      /\ ~k.res.raised
      /\ k.res.status = k.status
      /\ k.res.hasError
      /\ k.res.error = [pre |-> "HTTP", code |-> k.status, text |-> k.statusText]
      /\ ~k.res.hasData
      /\ k.reads = 0

C3_Witness ==
  \E c \in Slots :
    /\ Done(calls[c]) /\ calls[c].op = "delete"
    /\ calls[c].status = 404 /\ calls[c].statusText = "Not Found"
    /\ calls[c].res.hasError /\ calls[c].res.status = 404

\* C4: HttpClient.request never raises; what was thrown while serializing
\* the body, calling the transport or parsing the body, other than the
\* deadline's abort, comes back as {status: 500, error: message} for an
\* Error and {status: 500, error: "Unknown error occurred"} otherwise.
C4_RequestNeverRaises ==
  \A c \in Slots :
    LET k == calls[c] IN
    (Done(k) /\ ViaHttpClient(k)) =>
      /\ ~k.res.raised
      /\ (k.caught # NoThrown /\ k.caught # AbortErr) =>
           /\ k.res.status = 500
           /\ k.res.hasError /\ ~k.res.hasData
           /\ k.res.error = IF k.caught.isError THEN k.caught.message
                            ELSE Lit("Unknown error occurred")

C4_Witness ==
  \E c \in Slots :
    /\ Done(calls[c]) /\ calls[c].op = "post"
    /\ calls[c].caught = StringThrow
    /\ calls[c].res.status = 500

\* C5: one invocation of HttpClient.request issues exactly one transport
\* call, which carries the JSON text of body whenever body is defined
\* (0, false, "" and null included) and no body field exactly when body is
\* undefined.
C5_OneCallWithBody ==
  \A c \in Slots :
    LET k == calls[c] IN
    ViaHttpClient(k) =>
      /\ k.fetches = 1
      /\ k.data # Undefined => k.body = [present |-> TRUE, json |-> k.data]
      /\ k.data = Undefined <=> ~k.body.present

\* C6: healthCheck never raises and resolves to {status, responseTime}
\* with responseTime >= 0; it issues GET /health, and status is "healthy"
\* exactly when that call yielded status 200, "unhealthy" otherwise.
C6_HealthCheck ==
  \A c \in Slots :
    LET k == calls[c] IN
    (Done(k) /\ k.op = "healthCheck") =>
      /\ ~k.out.raised
      /\ k.method = "GET" /\ k.path = <<"/health">>
      /\ k.out.health \in {"healthy", "unhealthy"}
      /\ k.out.rt >= 0 /\ k.out.rt = k.endAt - k.start
      /\ k.out.health = "healthy" <=> k.res.status = 200
      /\ k.status # 200 => k.out.health = "unhealthy"

C6_Witness ==
  \E c \in Slots :
    /\ Done(calls[c]) /\ calls[c].op = "healthCheck"
    /\ calls[c].out.health = "healthy" /\ calls[c].out.rt >= 1

\* C7: deleteUser / deleteProduct / deleteNotification return true if and
\* only if the downstream answered the DELETE with status 204, return false
\* for any other answer without an error, and raise whenever the envelope's
\* error is set (a non-empty string).
C7_DeleteTrueIff204 ==
  \A c \in Slots :
    LET k == calls[c] IN
    (Done(k) /\ k.op \in DeleteOps) =>
      /\ (~k.out.raised /\ k.out.val = [t |-> "bool", n |-> 1]) <=> k.status = 204
      /\ (k.res.hasError /\ k.res.error # Lit("")) => k.out.raised
      /\ (~k.res.hasError /\ k.status # 204) =>
           (~k.out.raised /\ k.out.val = [t |-> "bool", n |-> 0])

\* C8 as stated: a read / create / update operation raises when the
\* envelope has an error (a non-empty string) or no data (none, or null),
\* with the error as message when there is one and the fallback otherwise,
\* and returns the data unchanged in every other case.
C8_UnwrapAsStated ==
  \A c \in Slots :
    LET k == calls[c]
        hasMsg == k.res.hasError /\ k.res.error # Lit("")
    IN
    (Done(k) /\ k.op \in EnvelopeOps \ DeleteOps) =>
      IF hasMsg \/ ~k.res.hasData \/ k.res.data = JNull
      THEN /\ k.out.raised
           /\ k.out.thrown.isError
           /\ k.out.thrown.message =
                IF hasMsg THEN k.res.error ELSE Lit(Fallback(k.op))
      ELSE ~k.out.raised /\ k.out.val = k.res.data

\* Values a JavaScript condition reads as false.
Falsy == {Undefined, JNull, JFalse, JZero, JEmptyStr}

\* C8 amended: the operation raises an Error when the envelope's error is
\* a non-empty string or its data is missing or falsy; the message is the
\* error when non-empty and the operation's fallback otherwise; in every
\* other case it returns the data unchanged, except getUnreadCount, which
\* returns data.count.
C8_UnwrapTruthiness ==
  \A c \in Slots :
    LET k == calls[c]
        hasMsg == k.res.hasError /\ k.res.error # Lit("")
    IN
    (Done(k) /\ k.op \in EnvelopeOps \ DeleteOps) =>
      IF hasMsg \/ ~k.res.hasData \/ k.res.data \in Falsy
      THEN /\ k.out.raised
           /\ k.out.thrown.isError /\ k.out.thrown.name = "Error"
           /\ k.out.thrown.message # Lit("")
           /\ hasMsg => k.out.thrown.message = k.res.error
           /\ ~hasMsg => k.out.thrown.message.pre = ""
           /\ (~hasMsg /\ k.op = "getUserById") =>
                k.out.thrown.message.text = "Failed to fetch user"
           /\ (~hasMsg /\ k.op = "markAsRead") =>
                k.out.thrown.message.text = "Failed to mark notification as read"
      ELSE /\ ~k.out.raised
           /\ k.op # "getUnreadCount" => k.out.val = k.res.data
           /\ k.op = "getUnreadCount" =>
                k.out.val = IF k.res.data.t = "obj"
                            THEN [t |-> "num", n |-> k.res.data.n] ELSE Undefined

C8_Witness ==
  \E c \in Slots :
    /\ Done(calls[c]) /\ calls[c].op = "getUserById"
    /\ calls[c].res.status = 200 /\ calls[c].res.data = JNull
    /\ calls[c].out.raised
    /\ calls[c].out.thrown.message = Lit("Failed to fetch user")

\* C9 as stated: every downstream call of every service client (user,
\* product, notification, account, customer) waits for its answer under a
\* deadline: the timer is armed and the wait never outlasts the timeout.
C9_EveryClientHasDeadline ==
  \A c \in Slots :
    LET k == calls[c] IN
    (k.op \in ServiceOps /\ k.pc = "fetch") =>
      /\ k.timer = "armed"
      /\ now <= k.start + Timeout

\* C9 amended: every downstream call of the user, product and notification
\* clients waits for its answer under its own deadline: the wait never
\* outlasts the timeout, and a call cancelled by it ends at the deadline
\* with the 408 envelope, which its caller observes as the Error "Request
\* timeout"; the account and customer clients arm no timer.
C9_EnvelopeClientsHaveDeadline ==
  \A c \in Slots :
    LET k == calls[c] IN
    /\ (k.op \in EnvelopeOps /\ k.pc = "fetch") =>
         /\ k.timer = "armed"
         /\ now <= k.start + Timeout
    /\ (k.op \in EnvelopeOps /\ Done(k) /\ k.caught = AbortErr) =>
         /\ k.endAt = k.start + Timeout
         /\ k.res = [NoRes EXCEPT !.status = 408, !.hasError = TRUE,
                                  !.error = Lit("Request timeout")]
         /\ k.out.raised /\ k.out.thrown.isError
         /\ k.out.thrown.message = Lit("Request timeout")
    /\ k.op \in DirectOps => k.timer = "none"

C9_Witness ==
  \E c \in Slots :
    /\ Done(calls[c]) /\ calls[c].op = "getProducts"
    /\ calls[c].caught = AbortErr /\ calls[c].status = 0
    /\ calls[c].out.raised

\* What a finished call of HttpClient returned, read off its own response,
\* its own body and its own timer alone.
OwnOutcome(k) ==
  CASE k.caught = AbortErr ->
         /\ k.timer = "fired" /\ k.endAt >= k.start + Timeout
         /\ k.res = TimeoutRes
    [] k.caught # AbortErr /\ k.caught # NoThrown ->
         k.res = ErrorRes(500, k.caught.message)
    [] k.caught = NoThrown /\ k.jsonOk ->
         k.res = DataRes(k.status, k.parsed)
    [] OTHER ->
         k.res = ErrorRes(k.status, HttpMsg(k.status, k.statusText))

\* C10: with several calls in flight on one HttpClient, the expiry of one
\* call's deadline aborts that call only: the step in which a timer fires
\* leaves every other call as it was, and every finished call has the
\* outcome its own response and its own deadline determine.
C10_ExpiryAbortsOnlyOwnCall ==
  [][/\ \A c \in Slots :
          (calls[c].timer = "armed" /\ calls'[c].timer = "fired") =>
            /\ \A d \in Slots \ {c} : calls'[d] = calls[d]
            /\ InFlight(calls[c]) => calls'[c].res = TimeoutRes
     /\ \A d \in DOMAIN calls' : Done(calls'[d]) => OwnOutcome(calls'[d])
    ]_vars

C10_Witness ==
  \E c, d \in Slots :
    /\ c # d
    /\ Done(calls[c]) /\ calls[c].res = TimeoutRes
    /\ Done(calls[d]) /\ calls[d].res.hasData
    /\ calls[d].start < calls[c].endAt /\ calls[d].endAt > calls[c].endAt

\* A resolver invocation whose awaited service-client call has settled.
Resolved(k) == Done(k) /\ k.field \in PassThroughFields
\* What that resolver invocation handed to the GraphQL engine.
Handed(k) == ResolverOutcome(k.field, k.out)

\* C11: every failure raised inside a resolver reaches the GraphQL engine as
\* a GraphQLError whose message is the underlying Error's message, or the
\* resolver's fixed fallback message when the thrown value is not an Error
\* (stated for the failures of a call the downstream has answered).
C11_FailuresReachEngineAsGraphQLError ==
  \A c \in Slots :
    LET k == calls[c] IN
    (Resolved(k) /\ k.out.raised /\ k.status # 0) =>
      /\ Handed(k).raised
      /\ Handed(k).thrown.name = "GraphQLError"
      /\ Handed(k).thrown.message =
           IF k.out.thrown.isError THEN k.out.thrown.message
           ELSE Lit(ResolverFallback(k.field))

RootFields == UserFields \cup ProductFields \cup NotificationFields \cup AccountFields

\* C12: a root or mutation resolver makes exactly one call, to the
\* service-client method of its field, with the arguments it received under
\* the same names, and what it returns is the value that call returned.
C12_RootResolversPassThrough ==
  \A r \in DOMAIN invoked :
    invoked[r].field \in RootFields =>
      /\ Cardinality(CallsOf(r)) = 1
      /\ \A c \in CallsOf(r) :
           LET k == calls[c] IN
           /\ k.op = ServiceOf(invoked[r].field)
           /\ k.args = invoked[r].args
           /\ k.data = invoked[r].args.input
           /\ (Done(k) /\ ~k.out.raised) => Handed(k) = Returned(k.out.val)

\* A mutation resolver has returned the object its service client returned
\* for the id and input it was given.
C12_Witness ==
  \E c \in Slots :
    LET k == calls[c] IN
    /\ Done(k)
    /\ k.field = "Mutation.updateUser"
    /\ invoked[k.rid].args.id = IdB
    /\ k.args.input = JObj
    /\ Handed(k) = Returned(JObj)

\* C13: a relational field resolved on N parents makes N downstream calls,
\* one per parent and in the parents' order, each to the service-client
\* method of the field with the key of its own parent: Account.customer
\* calls getCustomerById(parent.customerId), Customer.accounts calls
\* getAccountsByCustomerId(parent.id); parents sharing a key share no call.
C13_OneCallPerParent ==
  \A r \in DOMAIN invoked :
    invoked[r].field \in RelationalFields =>
      /\ CallsOf(r) = {r}
      /\ calls[r].op = IF invoked[r].field = "Account.customer" THEN "getCustomerById"
                       ELSE "getAccountsByCustomerId"
      /\ calls[r].args = [NoArgs EXCEPT !.id = invoked[r].args.id]
      /\ calls[r].fetches = 1

\* Two parents with the same key have each made their own call.
C13_Witness ==
  \E c, d \in Slots :
    /\ c # d
    /\ calls[c].field = "Customer.accounts"
    /\ calls[d].field = "Customer.accounts"
    /\ invoked[c].args.id = invoked[d].args.id
    /\ Done(calls[c])
    /\ Done(calls[d])

\* Query.health was invoked as r and every check it started has settled.
HealthSettled(r) ==
  /\ invoked[r].field = HealthField
  /\ CallsOf(r) # {}
  /\ \A c \in CallsOf(r) : Done(calls[c])

\* C14: in the report of Query.health, a service whose check fulfilled as
\* healthy is listed {name, "healthy", responseTime}, and a service whose
\* check was rejected or reported unhealthy is listed
\* {name, "unhealthy", responseTime: null}.
C14_EntryFollowsCheck ==
  \A r \in DOMAIN invoked :
    HealthSettled(r) =>
      \A j \in DOMAIN ChecksOf(r) :
        LET k == ChecksOf(r)[j]
            e == HealthOf(r).services[j] IN
        /\ j \in DOMAIN HealthOf(r).services
        /\ e.name = k.service
        /\ (~k.out.raised /\ k.out.health = "healthy") =>
             (e.status = "healthy" /\ e.responseTime = [t |-> "num", n |-> k.out.rt])
        /\ (k.out.raised \/ k.out.health = "unhealthy") =>
             (e.status = "unhealthy" /\ e.responseTime = JNull)

\* The five service clients of the gateway.
AllClients ==
  <<"user-service", "product-service", "notification-service", "account-service",
    "customer-service">>
Names(services) == [j \in DOMAIN services |-> services[j].name]

\* C15 as stated: the services array of the report holds one entry per
\* service client (user, product, notification, account, customer), in that
\* order.
C15_OneEntryPerClient ==
  \A r \in DOMAIN invoked :
    HealthSettled(r) => Names(HealthOf(r).services) = AllClients

\* C15 amended: Query.health starts the health check of its one
\* participant, the notification client, when it is invoked, and once that
\* check has settled, whatever its outcome, the services array holds exactly
\* one entry, named notification-service.
C15_OneEntryForNotification ==
  \A r \in DOMAIN invoked :
    invoked[r].field = HealthField =>
      /\ Cardinality(CallsOf(r)) = 1
      /\ \A c \in CallsOf(r) :
           calls[c].op = "healthCheck" /\ calls[c].service = "notification-service"
      /\ HealthSettled(r) => Names(HealthOf(r).services) = <<"notification-service">>

\* The report of a notification service whose check failed at the transport.
C15_Witness ==
  \E r \in DOMAIN invoked :
    /\ HealthSettled(r)
    /\ \E c \in CallsOf(r) : calls[c].res.raised = FALSE /\ calls[c].caught = NetErr
    /\ Len(HealthOf(r).services) = 1

\* C16: Query.health never raises; its top-level status is "healthy"
\* whenever the aggregation did not throw, whatever the checks found, and it
\* is "unhealthy", with an empty services list, only when the aggregation
\* threw.
C16_TopLevelHealthy ==
  \A r \in DOMAIN invoked :
    HealthSettled(r) =>
      LET results == [j \in DOMAIN ChecksOf(r) |-> Settled(ChecksOf(r)[j].out)] IN
      /\ ~HealthOf(r).raised
      /\ ~MapThrows(results) => HealthOf(r).status = "healthy"
      /\ HealthOf(r).status = "unhealthy" =>
           (MapThrows(results) /\ HealthOf(r).services = << >>)
      /\ HealthOf(r).status \in {"healthy", "unhealthy"}

\* The report is healthy at the top although the only check timed out.
C16_Witness ==
  \E r \in DOMAIN invoked :
    /\ HealthSettled(r)
    /\ \E c \in CallsOf(r) :
         calls[c].out.health = "unhealthy" /\ calls[c].res = TimeoutRes
    /\ HealthOf(r).status = "healthy"

\* The fields of the operation whose resolver failed.
FailedFields == {r \in DOMAIN invoked : FieldFailed(r)}
\* The message of what resolver invocation r threw.
Original(r) == HandedBy(r).thrown.message

C18_DirectThrowConvention ==
  \A c \in Slots :
    LET k == calls[c] IN
    k.op \in DirectOps =>
      /\ k.fetches = 1
      /\ k.requests = 0
      /\ k.timer = "none"
      /\ Done(k) =>
           /\ (k.status # 0 /\ ~Ok(k.status)) =>
                k.out = Raised(NewError(
                  [pre |-> DirectWhat(k.op), id |-> k.args.id, code |-> k.status,
                   text |-> k.statusText]))
           /\ k.status = 0 => (k.out.raised /\ k.out.thrown \in FetchThrows)
           /\ (Ok(k.status) /\ ~k.jsonOk) => (k.out.raised /\ k.out.thrown \in JsonThrows)
           /\ (Ok(k.status) /\ k.jsonOk) => k.out = Returned(k.parsed)

\* getCustomerById got a 404 for the second id.
C18_Witness ==
  \E c \in Slots :
    LET k == calls[c] IN
    /\ Done(k)
    /\ k.op = "getCustomerById"
    /\ k.args.id = IdB
    /\ k.out.raised
    /\ k.out.thrown.message =
         [pre |-> "Failed to fetch customer", id |-> IdB, code |-> 404,
          text |-> "Not Found"]

\* C19: every operation of the user, product and notification clients
\* issues exactly one HttpClient call per invocation, on success and on
\* every failure path, and that call is never issued again.
C19_OneClientCallPerInvocation ==
  \A c \in Slots :
    LET k == calls[c] IN
    k.op \in EnvelopeOps => (k.requests = 1 /\ k.fetches <= 1)

\* The names of the query-string parameters a call sent.
ParamNames(k) == {p.name : p \in k.query}
\* A category filter was given to getProducts.
CategoryProvided(k) == ~Nullish(k.args.category)

\* C20: getUsers, getProducts and getUserNotifications always send limit
\* and offset as query-string parameters; getProducts sends a category
\* parameter exactly when a category filter was provided.
C20_ListQueryParameters ==
  \A c \in Slots :
    LET k == calls[c] IN
    k.op \in ListOps =>
      /\ {"limit", "offset"} \subseteq ParamNames(k)
      /\ "category" \in ParamNames(k) <=> (k.op = "getProducts" /\ CategoryProvided(k))

\* HttpClient.request handed a result back to its caller.
RequestReturned(k) == Done(k) /\ ViaHttpClient(k) /\ k.requests = 1 /\ ~k.res.raised
\* A field of the result carries something: a data that is neither absent
\* nor null, an error key that is present.
DataPopulated(res) == res.hasData /\ ~Nullish(res.data)
ErrorPopulated(res) == res.hasError

\* C21 as stated: every result of HttpClient.request has its status set and
\* exactly one of data / error meaningfully populated, never both and never
\* neither, a 2xx response with a null body included.
C21_ExactlyOnePopulated ==
  \A c \in Slots :
    LET k == calls[c] IN
    RequestReturned(k) =>
      /\ k.res.status # 0
      /\ DataPopulated(k.res) # ErrorPopulated(k.res)

\* C21 amended: every result of HttpClient.request has its status set and
\* exactly one of the keys data / error present, never both and never
\* neither; the data of a 2xx response is whatever the body parsed to,
\* null included.
C21_ExactlyOneKey ==
  \A c \in Slots :
    LET k == calls[c] IN
    RequestReturned(k) =>
      /\ k.res.status # 0
      /\ k.res.hasData # k.res.hasError
      /\ k.res.hasData => k.res.data = k.parsed

C21_Witness ==
  \E c \in Slots :
    /\ RequestReturned(calls[c])
    /\ calls[c].status = 204 /\ calls[c].jsonOk
    /\ calls[c].res = [NoRes EXCEPT !.status = 204, !.hasData = TRUE, !.data = JNull]

\* A call on the client that reached the transport.
Issued(k) == ViaHttpClient(k) /\ k.fetches = 1

\* C22: HttpClient.get with a path that has no leading slash ("path" on
\* base "http://example.com") issues its call to the URL with a single
\* slash inserted between base and path.
C22_SlashInserted ==
  \A c \in Slots :
    LET k == calls[c] IN
    (Issued(k) /\ k.op = "get" /\ client.ctor.baseUrl = <<Host>>
       /\ k.path = <<"path">>) =>
      k.url = <<Host, "/", "path">>

ServiceCalls(r) == {c \in CallsOf(r) : calls[c].svc = 1}

\* C25: logging never alters control flow: in every execution context
\* (with a requestId, without one, with no context object at all) an
\* invocation of an account or customer resolver calls its service exactly
\* once and ends with the outcome that call determines.
C25_LoggingKeepsControlFlow ==
  \A r \in DOMAIN invoked :
    (invoked[r].field \in AccountFields \cup RelationalFields /\ FieldSettled(r)) =>
      /\ Cardinality(ServiceCalls(r)) = 1
      /\ \A c \in ServiceCalls(r) :
           HandedBy(r) = ResolverOutcome(invoked[r].field, calls[c].out)

\* Two calls were given the same inputs, and the downstream behaved the
\* same way towards both.
SameInputs(k, j) ==
  /\ k.op = j.op /\ k.path = j.path /\ k.given = j.given /\ k.data = j.data
SameAnswer(k, j) ==
  /\ k.status = j.status /\ k.statusText = j.statusText
  /\ k.jsonOk = j.jsonOk /\ k.parsed = j.parsed /\ k.caught = j.caught

C26_ClientUnchanged ==
  /\ client = NewHttpClient(client.ctor.baseUrl, client.ctor.options)
  /\ \A c \in Slots :
       LET k == calls[c] IN
       Issued(k) =>
         /\ k.headers =
              Spread(Spread(BuiltinHeaders, client.ctor.options.headers), k.given)
         /\ k.url = StripTrailingSlash(client.ctor.baseUrl) \o k.path

C26_Witness ==
  \E c, d \in Slots :
    /\ c < d
    /\ Done(calls[c]) /\ calls[c].given = ("X-Custom" :> "custom-value")
    /\ Issued(calls[d]) /\ calls[d].given = NoHeaders
    /\ "X-Custom" \notin DOMAIN calls[d].headers
    /\ calls[d].headers = client.defaultHeaders

\* C27: whenever HttpClient.request has returned, by any path (2xx,
\* non-2xx, transport error, parse error, timeout), the deadline timer it
\* armed for that call is no longer pending.
C27_NoTimerLeftPending ==
  \A c \in Slots :
    LET k == calls[c] IN
    (Done(k) /\ ViaHttpClient(k) /\ k.requests = 1) => k.timer # "armed"

\* C28: every HttpClient.request call eventually resolves, provided the
\* timer fires and the transport honours the abort: no call stays pending
\* for ever, whether the downstream stalls before the headers or while the
\* body of a 2xx response is read.
C28_EveryCallResolves ==
  (Len(calls) = 1 /\ ViaHttpClient(calls[1])) ~> (Len(calls) = 1 /\ Done(calls[1]))

\* C29 as stated: a result has status 408 exactly when its error is
\* "Request timeout" and the call was aborted by its own timer, so that
\* status 408 alone identifies a local timeout.
C29_Status408IffLocalTimeout ==
  \A c \in Slots :
    LET k == calls[c] IN
    (Done(k) /\ ViaHttpClient(k) /\ k.requests = 1) =>
      (k.res.status = 408 <=>
         (k.res.hasError /\ k.res.error = Lit("Request timeout")
            /\ k.caught = AbortErr /\ k.timer = "fired"))

\* C29 amended: a result has status 408 exactly when the call was aborted
\* by its own timer or the downstream itself answered 408; the two differ
\* in the error text: "Request timeout" exactly for the local abort,
\* "HTTP 408: <statusText>" for the downstream's answer.
C29_Status408AndErrorText ==
  \A c \in Slots :
    LET k == calls[c] IN
    (Done(k) /\ ViaHttpClient(k) /\ k.requests = 1) =>
      /\ k.res.status = 408 <=> (k.caught = AbortErr \/ k.status = 408)
      /\ (k.res.hasError /\ k.res.error = Lit("Request timeout")) <=>
           (k.caught = AbortErr /\ k.timer = "fired")
      /\ k.caught = AbortErr => k.res = TimeoutRes
      /\ (k.status = 408 /\ k.caught = NoThrown) =>
           k.res = ErrorRes(408, HttpMsg(408, k.statusText))

C29_Witness ==
  \E c \in Slots :
    /\ Done(calls[c]) /\ calls[c].requests = 1
    /\ calls[c].status = 408 /\ calls[c].timer = "cleared"
    /\ calls[c].res = ErrorRes(408, HttpMsg(408, "Request Timeout"))

\* The primary supervises workers, and every worker it is meant to have is
\* alive.
Supervising == cluster.primary = "supervising"
FullStrength == Supervising /\ Cardinality(Live(cluster)) = NumCPUs

\* C30: in production the primary forks one worker per CPU and exactly one
\* replacement for each worker that exits, whatever the exit code or
\* signal (a graceful shutdown with code 0 included): the live workers and
\* the exits not yet handled always add up to the CPU count, one worker
\* has been forked per CPU and per handled exit, and the live workers
\* always return to the CPU count.
C30_WorkersReplaced ==
  /\ [](Supervising =>
          /\ Cardinality(Live(cluster)) + Len(cluster.events) = NumCPUs
          /\ Len(cluster.workers) =
               NumCPUs + Cardinality(DOMAIN cluster.workers \ Live(cluster))
                 - Len(cluster.events))
  /\ Supervising ~> FullStrength

C30_Witness ==
  /\ FullStrength
  /\ cluster.events = << >>
  /\ \E w \in DOMAIN cluster.workers : cluster.workers[w].exit = "0"
  /\ \E w \in DOMAIN cluster.workers : cluster.workers[w].exit = "SIGKILL"
  /\ Len(cluster.workers) = NumCPUs + 2

====
